---- MODULE Spec2Model ----
(***************************************************************************)
(* Model of beamium's configuration loader, src/src/config.rs:             *)
(* load_config (the layered loader) and load_path (the per-file, per-      *)
(* document merger), with the library calls they make (yaml_rust node      *)
(* access, cast::u64, regex::Regex / regex::RegexSet, slog::Level).        *)
(*                                                                         *)
(* Strings that the code treats as text only are TLA+ strings.  A regular  *)
(* expression is a sequence of tokens (one per lexical element), a subject *)
(* line is a sequence of one-character strings.  Error messages built with *)
(* format!("a.{}.b ...", name) are kept as the sequence of the dot         *)
(* separated words in front of the first blank (path) and the rest (text). *)
(***************************************************************************)
EXTENDS Integers, Sequences, FiniteSets, TLC

VARIABLES
    pc,           \* position of load_config / load_path
    config_path,  \* the argument of load_config
    usize_bits,   \* width of usize on the target the crate was built for
    config,       \* the local `config` of load_config
    docsLeft,     \* documents of the open file not yet visited by the for loop
    after,        \* position load_config resumes at when load_path returns Ok
    result,       \* what load_config returned
    opened,       \* history: the paths handed to File::open and what was found there
    applied,      \* history: the documents visited by load_path, in order
    errors,       \* history: the errors load_path returned, in order
    fpc,          \* position of the metric filter harness
    patterns,     \* the `metrics` strings of one source
    subject,      \* a line handed to RegexSet::is_match
    filter,       \* the Option<RegexSet> built from patterns
    verdict       \* what is_match answered

vars == <<pc, config_path, usize_bits, config, docsLeft, after, result,
          opened, applied, errors, fpc, patterns, subject, filter, verdict>>

loaderVars == <<pc, config_path, usize_bits, config, docsLeft, after, result,
                opened, applied, errors>>

filterVars == <<fpc, patterns, subject, filter, verdict>>

----------------------------------------------------------------------------
(* Bounds of the model *)

\* documents per file
MaxDocs == 2
\* documents visited in one call of load_config
MaxTotal == 2
\* length of the enumerated subject lines
MaxSubj == 4
\* TLC integers have 32 bits, so the widths are scaled: i64 and u64 have
\* IntBits bits, usize has IntBits bits (64-bit target) or half of them.
IntBits == 6

I64Max == 2^(IntBits - 1) - 1
I64Min == 0 - 2^(IntBits - 1)
U64Max == 2^IntBits - 1

----------------------------------------------------------------------------
(* regex: patterns, compilation, matching *)

IsSpace(ch) == ch \in {" ", "\t"}

\* does one pattern token (not an operator) accept the character ch
TokenAccepts(tok, ch) ==
    CASE tok = "."    -> TRUE
      [] tok = "\\."  -> ch = "."
      [] tok = "\\S"  -> ~IsSpace(ch)
      [] tok = "\\s"  -> IsSpace(ch)
      [] OTHER        -> ch = tok

RECURSIVE Depths(_, _)
\* the parenthesis depth after each token, or -1 from the first unmatched ")"
Depths(p, d) ==
    IF p = <<>> THEN <<>>
    ELSE LET d1 == IF d < 0 THEN -1
                   ELSE IF Head(p) = "(" THEN d + 1
                   ELSE IF Head(p) = ")" THEN d - 1
                   ELSE d
         IN  <<d1>> \o Depths(Tail(p), d1)

\* regex syntax check: parentheses balance and every * has something to repeat
SyntaxOk(p) ==
    LET ds == Depths(p, 0)
    IN  /\ \A i \in 1..Len(ds) : ds[i] >= 0
        /\ (p # <<>> => ds[Len(ds)] = 0)
        /\ \A i \in 1..Len(p) :
              p[i] = "*" => /\ i > 1
                            /\ p[i-1] \notin {"*", "|", "(", "^"}

\* regex::Regex::new / regex::RegexSet::new: the compiled program is kept as
\* the pattern text; a syntax error carries the pattern and nothing else.
RegexNewLax(p) == [ok |-> TRUE, re |-> p]

RegexNew(p) == [ok |-> SyntaxOk(p), re |-> p]

RECURSIVE SplitAlt(_)
\* the alternatives of a pattern: cut at every top-level |
SplitAlt(p) ==
    IF \A i \in 1..Len(p) : p[i] # "|" THEN <<p>>
    ELSE LET i == CHOOSE i \in 1..Len(p) :
                      p[i] = "|" /\ \A j \in 1..(i-1) : p[j] # "|"
         IN  <<SubSeq(p, 1, i-1)>> \o SplitAlt(SubSeq(p, i+1, Len(p)))

\* one alternative as items (token, starred); capture groups do not change
\* whether a subject matches
Items(b) ==
    LET q   == SelectSeq(b, LAMBDA t : t \notin {"(", ")"})
        idx == SelectSeq([i \in 1..Len(q) |-> i], LAMBDA i : q[i] # "*")
    IN  [k \in 1..Len(idx) |->
            [tok  |-> q[idx[k]],
             star |-> idx[k] < Len(q) /\ q[idx[k] + 1] = "*"]]

RECURSIVE Ends(_, _, _, _)
\* the offsets at which items[i..] can end when started at offset pos of s
Ends(items, i, s, pos) ==
    IF i > Len(items) THEN {pos}
    ELSE LET it == items[i]
         IN  IF it.tok = "^"
             THEN IF pos = 0 THEN Ends(items, i + 1, s, pos) ELSE {}
             ELSE IF it.star
             THEN LET reach == {q \in pos..Len(s) :
                                   \A k \in (pos + 1)..q : TokenAccepts(it.tok, s[k])}
                  IN  UNION {Ends(items, i + 1, s, q) : q \in reach}
             ELSE IF pos < Len(s) /\ TokenAccepts(it.tok, s[pos + 1])
                  THEN Ends(items, i + 1, s, pos + 1)
                  ELSE {}

\* the pattern matches s with the match starting at offset pos
MatchesAt(re, s, pos) ==
    LET bs == SplitAlt(re)
    IN  \E b \in 1..Len(bs) : Ends(Items(bs[b]), 1, s, pos) # {}

\* regex::Regex::is_match: an unanchored search
IsMatch(re, s) == \E pos \in 0..Len(s) : MatchesAt(re, s, pos)

\* regex::RegexSet::is_match: some pattern of the set matches
SetIsMatch(set, s) == \E i \in 1..Len(set) : IsMatch(set[i], s)

\* a prefix that anchors the user's pattern at the start of the line
MetricPrefixAtName == <<"^">>

\* r"^(\S*)\s"
MetricPrefix == <<"^", "(", "\\S", "*", ")", "\\s">>

SelectorPrefix == <<"^">>

----------------------------------------------------------------------------
(* yaml_rust: document nodes and their accessors *)

\* Yaml::BadValue, what indexing gives for a missing key or a non-map
BadValue == [t |-> "bad"]
YNull == [t |-> "null"]
YString(s) == [t |-> "str", s |-> s]
YInteger(n) == [t |-> "int", n |-> n]
YReal(n) == [t |-> "real", r |-> n]
\* Yaml::Array, a sequence of nodes
YArray(a) == [t |-> "arr", a |-> a]
\* Yaml::Hash, a sequence of <<key node, value node>> in document order
YHash(h) == [t |-> "hash", h |-> h]

\* YamlLoader types a plain scalar written as the integer n: Yaml::Integer
\* when it parses as an i64, otherwise a Yaml::Real
Scalar(n) == IF n >= I64Min /\ n <= I64Max THEN YInteger(n) ELSE YReal(n)

IsKey(k, key) == k.t = "str" /\ k.s = key

\* node[key]
Get(node, key) ==
    IF node.t = "hash" /\ \E i \in 1..Len(node.h) : IsKey(node.h[i][1], key)
    THEN LET i == CHOOSE i \in 1..Len(node.h) : IsKey(node.h[i][1], key)
         IN  node.h[i][2]
    ELSE BadValue

is_badvalue(node) == node.t = "bad"

----------------------------------------------------------------------------
(* ConfigError *)

NoError == [kind |-> "none", path |-> <<>>, text |-> "", pattern |-> <<>>]

\* From<String> / From<&str>: ConfigError::Format with the message
FormatError(path, text) ==
    [kind |-> "Format", path |-> path, text |-> text, pattern |-> <<>>]

\* From<regex::Error>: ConfigError::Regex with the library's error, which
\* shows the pattern it could not parse
RegexError(p) ==
    [kind |-> "Regex", path |-> <<>>, text |-> "", pattern |-> p]

\* From<io::Error>
IoError(text) == [kind |-> "Io", path |-> <<>>, text |-> text, pattern |-> <<>>]

\* From<ScanError>
YamlError == [kind |-> "Yaml", path |-> <<>>, text |-> "scan error", pattern |-> <<>>]

Ok(v) == [ok |-> TRUE, v |-> v, err |-> NoError]
Err(e) == [ok |-> FALSE, v |-> 0, err |-> e]

----------------------------------------------------------------------------
(* integer conversions *)

\* a cast that wraps instead of failing
cast_u64_wrapping(n) == Ok(n % (U64Max + 1))

\* cast::u64(i64): fails on a negative value
cast_u64(n) == IF n < 0 THEN Err(NoError) ELSE Ok(n)

\* `x as usize`: keeps the low usize_bits bits
as_usize(n, bits) == n % (2^bits)

LevelNames == <<"Critical", "Error", "Warning", "Info", "Debug", "Trace">>

\* slog::Level::from_usize
from_usize(u) ==
    IF u < Len(LevelNames) THEN Ok(LevelNames[u + 1]) ELSE Err(NoError)

----------------------------------------------------------------------------
(* load_path: one `sources` entry *)

None == [some |-> FALSE, v |-> <<>>]
Some(x) == [some |-> TRUE, v |-> x]

Step(cfg, e) == [config |-> cfg, err |-> e]

\* regex::RegexSet::new(&metrics)
RegexSetNew(ps) ==
    IF \A i \in 1..Len(ps) : RegexNew(ps[i]).ok
    THEN Ok(ps)
    ELSE LET i == CHOOSE i \in 1..Len(ps) :
                      /\ ~RegexNew(ps[i]).ok
                      /\ \A j \in 1..(i-1) : RegexNew(ps[j]).ok
         IN  Err(RegexError(ps[i]))

\* let format = if v["format"].is_badvalue() { ... }
SourceFormat(name, v) ==
    LET f == Get(v, "format")
    IN  IF is_badvalue(f) THEN Ok("Prometheus")
        ELSE IF f.t # "str"
        THEN Err(FormatError(<<"sinks", name, "format">>, "should be a string"))
        ELSE IF f.s = "prometheus" THEN Ok("Prometheus")
        ELSE IF f.s = "sensision" THEN Ok("Sensision")
        ELSE Err(FormatError(<<"sinks", name, "format">>,
                             "should be 'Prometheus' or 'sensision'"))

RECURSIVE MetricsLoop(_, _, _)
\* for v in values { ... metrics.push(...) }
MetricsLoop(name, values, metrics) ==
    IF values = <<>> THEN Ok(metrics)
    ELSE LET x == Head(values)
         IN  IF x.t # "str"
             THEN Err(FormatError(<<"metrics", name>>, "is invalid"))
             ELSE LET value == RegexNew(x.s)
                  IN  IF ~value.ok THEN Err(RegexError(x.s))
                      ELSE MetricsLoop(name, Tail(values),
                                       Append(metrics, MetricPrefix \o value.re))

\* let metrics = if v["metrics"].is_badvalue() { None } else { ... }
SourceMetrics(name, v) ==
    LET m == Get(v, "metrics")
    IN  IF is_badvalue(m) THEN Ok(None)
        ELSE IF m.t # "arr"
        THEN Err(FormatError(<<"metrics">>, "should be an array"))
        ELSE LET r == MetricsLoop(name, m.a, <<>>)
             IN  IF ~r.ok THEN r
                 ELSE LET set == RegexSetNew(r.v)
                      IN  IF ~set.ok THEN set ELSE Ok(Some(set.v))

\* the body of `for (k, v) in sources` up to the push
ParseSource(k, v) ==
    IF k.t # "str"
    THEN Err(FormatError(<<"sources">>, "keys should be a string"))
    ELSE
    LET name == k.s
        url == Get(v, "url")
        period == Get(v, "period")
    IN  IF url.t # "str"
        THEN Err(FormatError(<<"sources", name, "url">>,
                             "is required and should be a string"))
        ELSE IF period.t # "int"
        THEN Err(FormatError(<<"sources", name, "period">>,
                             "is required and should be a number"))
        ELSE LET p == cast_u64(period.n)
             IN  IF ~p.ok
                 THEN Err(FormatError(<<"sources", name, "period">>, "is invalid"))
                 ELSE LET format == SourceFormat(name, v)
                      IN  IF ~format.ok THEN format
                          ELSE LET metrics == SourceMetrics(name, v)
                               IN  IF ~metrics.ok THEN metrics
                                   ELSE Ok([name    |-> name,
                                            url     |-> url.s,
                                            period  |-> p.v,
                                            format  |-> format.v,
                                            metrics |-> metrics.v])

\* a push that replaces an entry of the same name
PushReplacing(list, x) ==
    IF \E i \in 1..Len(list) : list[i].name = x.name
    THEN [i \in 1..Len(list) |-> IF list[i].name = x.name THEN x ELSE list[i]]
    ELSE Append(list, x)

\* config.sources.push(..) and config.sinks.push(..)
Push(list, x) == Append(list, x)

RECURSIVE SourcesLoop(_, _)
\* for (k, v) in sources { ... }
SourcesLoop(entries, cfg) ==
    IF entries = <<>> THEN Step(cfg, NoError)
    ELSE LET r == ParseSource(Head(entries)[1], Head(entries)[2])
         IN  IF ~r.ok THEN Step(cfg, r.err)
             ELSE SourcesLoop(Tail(entries),
                              [cfg EXCEPT !.sources = Push(@, r.v)])

\* if !doc["sources"].is_badvalue() { ... }
ApplySources(doc, cfg) ==
    LET sources == Get(doc, "sources")
    IN  IF is_badvalue(sources) THEN Step(cfg, NoError)
        ELSE IF sources.t # "hash"
        THEN Step(cfg, FormatError(<<"sources">>, "should be a map"))
        ELSE SourcesLoop(sources.h, cfg)

----------------------------------------------------------------------------
(* load_path: one `sinks` entry *)

DefaultTokenHeader == "X-Warp10-Token"
DefaultTtl == 3600
DefaultSize == 1073741824

\* let selector = if v["selector"].is_badvalue() { None } else { ... }
SinkSelector(name, v) ==
    LET sel == Get(v, "selector")
    IN  IF is_badvalue(sel) THEN Ok(None)
        ELSE IF sel.t # "str"
        THEN Err(FormatError(<<"sinks", name, "selector">>, "is invalid"))
        ELSE LET re == RegexNew(SelectorPrefix \o sel.s)
             IN  IF ~re.ok THEN Err(RegexError(SelectorPrefix \o sel.s))
                 ELSE Ok(Some(re.re))

\* ttl and size: an optional integer, cast to u64
SinkNumber(name, v, field, default) ==
    LET x == Get(v, field)
    IN  IF is_badvalue(x) THEN Ok(default)
        ELSE IF x.t # "int"
        THEN Err(FormatError(<<"sinks", name, field>>, "should be a number"))
        ELSE LET c == cast_u64(x.n)
             IN  IF ~c.ok
                 THEN Err(FormatError(<<"sinks", name, field>>,
                                      "should be a positive number"))
                 ELSE c

\* the body of `for (k, v) in sinks` up to the push
ParseSink(k, v) ==
    IF k.t # "str"
    THEN Err(FormatError(<<"sinks">>, "keys should be a string"))
    ELSE
    LET name == k.s
        url == Get(v, "url")
        token == Get(v, "token")
        th == Get(v, "token-header")
    IN  IF url.t # "str"
        THEN Err(FormatError(<<"sinks", name, "url">>,
                             "is required and should be a string"))
        ELSE IF token.t # "str"
        THEN Err(FormatError(<<"sinks", name, "token">>,
                             "is required and should be a string"))
        ELSE IF ~is_badvalue(th) /\ th.t # "str"
        THEN Err(FormatError(<<"sinks", name, "token-header">>,
                             "should be a string"))
        ELSE LET selector == SinkSelector(name, v)
             IN  IF ~selector.ok THEN selector
                 ELSE LET ttl == SinkNumber(name, v, "ttl", DefaultTtl)
                      IN  IF ~ttl.ok THEN ttl
                          ELSE LET size == SinkNumber(name, v, "size", DefaultSize)
                               IN  IF ~size.ok THEN size
                                   ELSE Ok([name         |-> name,
                                            url          |-> url.s,
                                            token        |-> token.s,
                                            token_header |-> IF is_badvalue(th)
                                                             THEN DefaultTokenHeader
                                                             ELSE th.s,
                                            selector     |-> selector.v,
                                            ttl          |-> ttl.v,
                                            size         |-> size.v])

RECURSIVE SinksLoop(_, _)
\* for (k, v) in sinks { ... }
SinksLoop(entries, cfg) ==
    IF entries = <<>> THEN Step(cfg, NoError)
    ELSE LET r == ParseSink(Head(entries)[1], Head(entries)[2])
         IN  IF ~r.ok THEN Step(cfg, r.err)
             ELSE SinksLoop(Tail(entries), [cfg EXCEPT !.sinks = Push(@, r.v)])

\* if !doc["sinks"].is_badvalue() { ... }
ApplySinks(doc, cfg) ==
    LET sinks == Get(doc, "sinks")
    IN  IF is_badvalue(sinks) THEN Step(cfg, NoError)
        ELSE IF sinks.t # "hash"
        THEN Step(cfg, FormatError(<<"sinks">>, "should be a map"))
        ELSE SinksLoop(sinks.h, cfg)

----------------------------------------------------------------------------
(* load_path: labels *)

\* HashMap::insert
Insert(map, k, v) == (k :> v) @@ map

RECURSIVE LabelsLoop(_, _)
\* for (k, v) in labels { ... }
LabelsLoop(entries, cfg) ==
    IF entries = <<>> THEN Step(cfg, NoError)
    ELSE LET k == Head(entries)[1]
             v == Head(entries)[2]
         IN  IF k.t # "str"
             THEN Step(cfg, FormatError(<<"labels">>, "keys should be a string"))
             ELSE IF v.t # "str"
             THEN Step(cfg, FormatError(<<"labels", k.s>>,
                                        "value should be a string"))
             ELSE LabelsLoop(Tail(entries),
                             [cfg EXCEPT !.labels = Insert(@, k.s, v.s)])

\* if !doc["labels"].is_badvalue() { ... }
ApplyLabels(doc, cfg) ==
    LET labels == Get(doc, "labels")
    IN  IF is_badvalue(labels) THEN Step(cfg, NoError)
        ELSE IF labels.t # "hash"
        THEN Step(cfg, FormatError(<<"labels">>, "should be a map"))
        ELSE LabelsLoop(labels.h, cfg)

----------------------------------------------------------------------------
(* load_config: the defaults *)

DefaultScanPeriod == 1000
DefaultBatchSize == 200000
DefaultBatchCount == 250
DefaultTimeout == 300

DefaultParameters ==
    [scan_period |-> DefaultScanPeriod,
     sink_dir    |-> "sinks",
     source_dir  |-> "sources",
     batch_size  |-> DefaultBatchSize,
     batch_count |-> DefaultBatchCount,
     log_file    |-> "beamium.log",
     log_level   |-> "Info",
     timeout     |-> DefaultTimeout]

\* let mut config = Config { ... }
Defaults ==
    [sources    |-> <<>>,
     labels     |-> <<>>,
     sinks      |-> <<>>,
     parameters |-> DefaultParameters]

----------------------------------------------------------------------------
(* load_path: parameters *)

\* the keys of `parameters` in the order the code visits them, the field
\* each one sets and the kind of value it takes
ParamTable ==
    << [key |-> "source-dir",  field |-> "source_dir",  kind |-> "str"],
       [key |-> "sink-dir",    field |-> "sink_dir",    kind |-> "str"],
       [key |-> "scan-period", field |-> "scan_period", kind |-> "num"],
       [key |-> "batch-size",  field |-> "batch_size",  kind |-> "num"],
       [key |-> "batch-count", field |-> "batch_count", kind |-> "num"],
       [key |-> "log-file",    field |-> "log_file",    kind |-> "str"],
       [key |-> "log-level",   field |-> "log_level",   kind |-> "level"],
       [key |-> "timeout",     field |-> "timeout",     kind |-> "num"] >>

\* the type check and conversion of one present parameter
ParseParam(row, node, bits) ==
    IF row.kind = "str"
    THEN IF node.t = "str" THEN Ok(node.s)
         ELSE Err(FormatError(<<"parameters", row.key>>, "should be a string"))
    ELSE IF node.t # "int"
    THEN Err(FormatError(<<"parameters", row.key>>, "should be a number"))
    ELSE LET c == cast_u64(node.n)
         IN  IF ~c.ok
             THEN Err(FormatError(<<"parameters", row.key>>, "is invalid"))
             ELSE IF row.kind = "num" THEN c
             ELSE LET level == from_usize(as_usize(c.v, bits))
                  IN  IF ~level.ok
                      THEN Err(FormatError(<<"parameters", row.key>>, "is invalid"))
                      ELSE level

\* an assignment that only replaces a default
SetParamOnce(params, field, value) ==
    IF params[field] = DefaultParameters[field]
    THEN [params EXCEPT ![field] = value]
    ELSE params

\* config.parameters.<field> = <value>
SetParam(params, field, value) == [params EXCEPT ![field] = value]

RECURSIVE ParamsLoop(_, _, _, _)
\* the eight `if !doc["parameters"][key].is_badvalue() { ... }` blocks
ParamsLoop(rows, parameters, cfg, bits) ==
    IF rows = <<>> THEN Step(cfg, NoError)
    ELSE LET row == Head(rows)
             node == Get(parameters, row.key)
         IN  IF is_badvalue(node)
             THEN ParamsLoop(Tail(rows), parameters, cfg, bits)
             ELSE LET r == ParseParam(row, node, bits)
                  IN  IF ~r.ok THEN Step(cfg, r.err)
                      ELSE ParamsLoop(Tail(rows), parameters,
                               [cfg EXCEPT !.parameters = SetParam(@, row.field, r.v)],
                               bits)

\* if !doc["parameters"].is_badvalue() { ... }
ApplyParameters(doc, cfg, bits) ==
    LET parameters == Get(doc, "parameters")
    IN  IF is_badvalue(parameters) THEN Step(cfg, NoError)
        ELSE ParamsLoop(ParamTable, parameters, cfg, bits)

\* try! between two sections: a failed section ends the document
ThenSinks(doc, a) == IF a.err.kind # "none" THEN a ELSE ApplySinks(doc, a.config)

ThenLabels(doc, b) == IF b.err.kind # "none" THEN b ELSE ApplyLabels(doc, b.config)

ThenParameters(doc, c, bits) ==
    IF c.err.kind # "none" THEN c ELSE ApplyParameters(doc, c.config, bits)

\* the body of `for doc in &docs`: the four sections in order, left at the
\* first error
ApplyDocument(doc, cfg, bits) ==
    ThenParameters(doc, ThenLabels(doc, ThenSinks(doc, ApplySources(doc, cfg))), bits)

----------------------------------------------------------------------------
(* The documents the files may hold *)

F(key, node) == <<YString(key), node>>
Doc(sections) == YHash(sections)

\* cpu\..*
CpuPattern == <<"c", "p", "u", "\\.", ".", "*">>
\* m.*
MemPattern == <<"m", ".", "*">>
\* ( : an unclosed group
BadPattern == <<"(">>

Url == F("url", YString("http://host/metrics"))
Period(n) == F("period", Scalar(n))

SourceValues ==
    { YHash(<<Url, Period(5)>>),
      YHash(<<Url, Period(0), F("format", YString("sensision"))>>),
      YHash(<<Url, Period(I64Max), F("format", YString("prometheus"))>>),
      YHash(<<Url, Period(0 - 1)>>),
      YHash(<<Url, Period(I64Max + 1)>>),
      YHash(<<Url, Period(U64Max + 1)>>),
      YHash(<<Url, F("period", YString("5"))>>),
      YHash(<<Period(5)>>),
      YHash(<<Url, Period(5), F("format", YString("json"))>>),
      YHash(<<Url, Period(5), F("format", YInteger(1))>>),
      YHash(<<Url, Period(5), F("metrics", YArray(<<>>))>>),
      YHash(<<Url, Period(5),
              F("metrics", YArray(<<YString(CpuPattern), YString(MemPattern)>>))>>),
      YHash(<<Url, Period(5),
              F("metrics", YArray(<<YString(CpuPattern), YString(BadPattern)>>))>>),
      YHash(<<Url, Period(5), F("metrics", YArray(<<YInteger(1)>>))>>),
      YHash(<<Url, Period(5), F("metrics", YString("cpu"))>>) }

PlainSource == YHash(<<Url, Period(5)>>)

SourceDocs ==
    { Doc(<<F("sources", YHash(<< F("a", v) >>))>>) : v \in SourceValues }
    \cup
    { Doc(<<F("sources", YHash(<< F("a", PlainSource),
                                  F("b", YHash(<<Url, Period(0 - 1)>>)) >>))>>),
      Doc(<<F("sources", YHash(<< F("b", PlainSource),
                                  F("a", YHash(<<Url, Period(7),
                                       F("metrics", YArray(<<YString(MemPattern)>>))>>)) >>))>>),
      Doc(<<F("sources", YHash(<< <<YInteger(1), PlainSource>> >>))>>),
      Doc(<<F("sources", YString("a"))>>) }

SinkUrl == F("url", YString("http://sink"))
Token == F("token", YString("secret"))

SinkValues ==
    { YHash(<<SinkUrl, Token>>),
      YHash(<<SinkUrl, Token, F("token-header", YString("X-Token")),
              F("selector", YString(<<"f", "o", "o">>)),
              F("ttl", Scalar(10)), F("size", Scalar(20))>>),
      YHash(<<SinkUrl>>),
      YHash(<<SinkUrl, Token, F("selector", YString(BadPattern))>>),
      YHash(<<SinkUrl, Token, F("selector", YInteger(1))>>),
      YHash(<<SinkUrl, Token, F("ttl", Scalar(0 - 1))>>),
      YHash(<<SinkUrl, Token, F("size", YString("big"))>>) }

SinkDocs ==
    { Doc(<<F("sinks", YHash(<< F("a", v) >>))>>) : v \in SinkValues }
    \cup
    { Doc(<<F("sinks", YHash(<< F("a", YHash(<<SinkUrl, Token>>)),
                                F("b", YHash(<<SinkUrl, Token,
                                                F("ttl", Scalar(3))>>)) >>))>>),
      Doc(<<F("sinks", YInteger(1))>>) }

LabelDocs ==
    { Doc(<<F("labels", YHash(<< F("host", YString("h1")), F("dc", YString("d1")) >>))>>),
      Doc(<<F("labels", YHash(<< F("host", YString("h2")) >>))>>),
      Doc(<<F("labels", YHash(<< F("host", YInteger(1)) >>))>>) }

\* the first value above the range of a 32-bit usize
UsizeWrap == 2^(IntBits \div 2)

ParamValues ==
    { <<F("source-dir", YString("src1"))>>,
      <<F("sink-dir", YString("snk1"))>>,
      <<F("log-file", YString("log1"))>>,
      <<F("log-file", YInteger(1))>>,
      <<F("scan-period", Scalar(7))>>,
      <<F("batch-size", Scalar(7))>>,
      <<F("batch-size", Scalar(9))>>,
      <<F("batch-size", Scalar(0 - 1))>>,
      <<F("batch-count", YString("many"))>>,
      <<F("timeout", Scalar(9))>>,
      <<F("timeout", Scalar(U64Max + 1))>>,
      <<F("log-level", Scalar(0))>>,
      <<F("log-level", Scalar(5))>>,
      <<F("log-level", Scalar(6))>>,
      <<F("log-level", Scalar(0 - 1))>>,
      <<F("log-level", Scalar(UsizeWrap))>>,
      <<F("log-level", Scalar(UsizeWrap + 2))>>,
      <<F("log-level", YString("info"))>>,
      <<F("source-dir", YString("src2")), F("batch-size", Scalar(9)),
        F("log-level", Scalar(1))>>,
      <<F("sink-dir", YString("snk2")), F("scan-period", Scalar(9)),
        F("batch-count", Scalar(9)), F("log-file", YString("log2")),
        F("timeout", Scalar(7))>> }

ParamDocs == { Doc(<<F("parameters", YHash(ps))>>) : ps \in ParamValues }

MixedDocs ==
    { YNull,
      Doc(<<>>),
      Doc(<<F("sources", YHash(<< F("c", PlainSource) >>)),
            F("sinks", YHash(<< F("c", YHash(<<SinkUrl, Token>>)) >>)),
            F("labels", YHash(<< F("dc", YString("d2")) >>)),
            F("parameters", YHash(<< F("batch-size", Scalar(11)) >>))>>) }

Docs == SourceDocs \cup SinkDocs \cup LabelDocs \cup ParamDocs \cup MixedDocs

----------------------------------------------------------------------------
(* load_config and load_path as a state machine *)

EtcPath == "/etc/beamium/config.yaml"
LocalPath == "config.yaml"
ConfigPaths == {"", "custom.yaml"}

\* what the file system answers for a path
FileStates == {"absent", "unreadable", "present"}

NoConfig == [absent |-> TRUE]
Pending == [state |-> "pending", config |-> NoConfig, err |-> NoError]
ReturnOk(cfg) == [state |-> "Ok", config |-> cfg, err |-> NoError]
ReturnErr(e) == [state |-> "Err", config |-> NoConfig, err |-> e]

Min(a, b) == IF a < b THEN a ELSE b

\* a loader that always starts with the discovery paths
EntryDiscovery(path) == "etc"

\* if config_path.is_empty() { ... } else { ... }
Entry(path) == IF path = "" THEN "etc" ELSE "explicit"

\* a caller that drops the error of load_path and goes on
TryIgnoring(e, next, res) == [pc |-> next, result |-> res]

\* try!(load_path(..)) in load_config: return the error at once
Try(e, next, res) == [pc |-> "done", result |-> ReturnErr(e)]

\* load_path returned Err(e) while load_config waited at `next`; t is what
\* the try! around the call does with it
Propagate(e, t) ==
    /\ errors' = Append(errors, e)
    /\ pc' = t.pc
    /\ result' = t.result
    /\ UNCHANGED <<docsLeft, after>>

LoadPathFails(e, next) == Propagate(e, Try(e, next, result))

\* File::open, read_to_string and YamlLoader::load_from_str
OpenFile(path, st, next) ==
    /\ opened' = Append(opened, [path |-> path, st |-> st])
    /\ UNCHANGED <<config, applied>>
    /\ IF st = "absent" THEN LoadPathFails(IoError("not found"), next)
       ELSE IF st = "unreadable" THEN LoadPathFails(IoError("cannot read"), next)
       ELSE \E n \in (0 - 1)..Min(MaxDocs, MaxTotal - Len(applied)) :
               IF n < 0 THEN LoadPathFails(YamlError, next)
               ELSE /\ docsLeft' = n
                    /\ after' = next
                    /\ pc' = "docs"
                    /\ UNCHANGED <<result, errors>>

LoadConfig ==
    /\ pc = "call"
    /\ pc' = Entry(config_path)
    /\ config' = Defaults
    /\ UNCHANGED <<docsLeft, after, result, opened, applied, errors>>

\* if Path::new(p).exists() { try!(load_path(p, &mut config)); }
Discover(stage, path, next) ==
    /\ pc = stage
    /\ \E st \in FileStates :
          IF st = "absent"
          THEN /\ pc' = next
               /\ UNCHANGED <<config, docsLeft, after, result, opened, applied, errors>>
          ELSE OpenFile(path, st, next)

DiscoverEtc == Discover("etc", EtcPath, "local") /\ UNCHANGED <<config_path, usize_bits, filterVars>>

DiscoverLocal == Discover("local", LocalPath, "ret") /\ UNCHANGED <<config_path, usize_bits, filterVars>>

\* try!(load_path(config_path, &mut config));
LoadExplicit ==
    /\ pc = "explicit"
    /\ \E st \in FileStates : OpenFile(config_path, st, "ret")
    /\ UNCHANGED <<config_path, usize_bits, filterVars>>

\* the document d was visited with outcome r
Visited(d, r) ==
    /\ config' = r.config
    /\ applied' = Append(applied, d)
    /\ UNCHANGED opened
    /\ IF r.err.kind = "none"
       THEN /\ docsLeft' = docsLeft - 1
            /\ UNCHANGED <<pc, after, result, errors>>
       ELSE LoadPathFails(r.err, after)

\* one turn of `for doc in &docs`
ApplyDoc ==
    /\ pc = "docs"
    /\ docsLeft > 0
    /\ \E d \in Docs : Visited(d, ApplyDocument(d, config, usize_bits))
    /\ UNCHANGED <<config_path, usize_bits, filterVars>>

\* the loop is over: load_path returns Ok(())
EndFile ==
    /\ pc = "docs"
    /\ docsLeft = 0
    /\ pc' = after
    /\ UNCHANGED <<config, docsLeft, after, result, opened, applied, errors>>
    /\ UNCHANGED <<config_path, usize_bits, filterVars>>

\* Ok(config)
Return ==
    /\ pc = "ret"
    /\ result' = ReturnOk(config)
    /\ pc' = "done"
    /\ UNCHANGED <<config, docsLeft, after, opened, applied, errors>>
    /\ UNCHANGED <<config_path, usize_bits, filterVars>>

Call == LoadConfig /\ UNCHANGED <<config_path, usize_bits, filterVars>>

FilterIdle ==
    /\ fpc = "idle"
    /\ patterns = <<>>
    /\ subject = <<>>
    /\ filter = None
    /\ verdict = FALSE

Init ==
    /\ pc = "call"
    /\ config_path \in ConfigPaths
    /\ usize_bits \in {IntBits \div 2, IntBits}
    /\ config = Defaults
    /\ docsLeft = 0
    /\ after = "ret"
    /\ result = Pending
    /\ opened = <<>>
    /\ applied = <<>>
    /\ errors = <<>>
    /\ FilterIdle

Next ==
    \/ Call
    \/ DiscoverEtc
    \/ DiscoverLocal
    \/ LoadExplicit
    \/ ApplyDoc
    \/ EndFile
    \/ Return

Spec == Init /\ [][Next]_vars

----------------------------------------------------------------------------
(* The metric filter of one source: compiled by load_path, then asked *)

\* "cpu.load 1 2 3"
CpuLine == <<"c", "p", "u", ".", "l", "o", "a", "d", " ", "1", " ", "2", " ", "3">>
\* "mem.free 1 2 3"
MemLine == <<"m", "e", "m", ".", "f", "r", "e", "e", " ", "1", " ", "2", " ", "3">>
\* "1// cpu.load 1"
StampedCpuLine == <<"1", "/", "/", " ", "c", "p", "u", ".", "l", "o", "a", "d", " ", "1">>
\* "1// mem.free 1"
StampedMemLine == <<"1", "/", "/", " ", "m", "e", "m", ".", "f", "r", "e", "e", " ", "1">>

SubjChars == {"c", "m", " "}

RECURSIVE Strings(_)
\* the subject lines of at most n characters
Strings(n) ==
    IF n = 0 THEN {<<>>}
    ELSE LET shorter == Strings(n - 1)
         IN  shorter \cup {Append(x, ch) : x \in shorter, ch \in SubjChars}

Subjects == Strings(MaxSubj) \cup {CpuLine, MemLine, StampedCpuLine, StampedMemLine}

UserPatterns ==
    { CpuPattern, MemPattern, <<"c">>, <<"\\S", "*">>, <<"c", "*", "m">>,
      <<"^", "c">>, <<"c", "|", "m">>, BadPattern, <<"*", "c">> }

PatternLists ==
    {<<>>} \cup {<<p>> : p \in UserPatterns}
           \cup {<<p, q>> : p \in UserPatterns, q \in UserPatterns}

LoaderIdle ==
    /\ pc = "idle"
    /\ config_path = ""
    /\ usize_bits = IntBits
    /\ config = Defaults
    /\ docsLeft = 0
    /\ after = "ret"
    /\ result = Pending
    /\ opened = <<>>
    /\ applied = <<>>
    /\ errors = <<>>

InitFilter ==
    /\ LoaderIdle
    /\ fpc = "new"
    /\ patterns \in PatternLists
    /\ subject \in Subjects
    /\ filter = None
    /\ verdict = FALSE

\* the `metrics` node of a source that lists the patterns ps
MetricsNode(ps) ==
    YHash(<<F("metrics", YArray([i \in 1..Len(ps) |-> YString(ps[i])]))>>)

Compiled(r) ==
    /\ filter' = IF r.ok THEN r.v ELSE None
    /\ fpc' = IF r.ok THEN "compiled" ELSE "error"

\* load_path builds Source.metrics
Compile ==
    /\ fpc = "new"
    /\ Compiled(SourceMetrics("a", MetricsNode(patterns)))
    /\ UNCHANGED <<patterns, subject, verdict, loaderVars>>

\* source.metrics.is_match(line)
Match ==
    /\ fpc = "compiled"
    /\ filter.some
    /\ verdict' = SetIsMatch(filter.v, subject)
    /\ fpc' = "matched"
    /\ UNCHANGED <<patterns, subject, filter, loaderVars>>

NextFilter ==
    \/ Compile
    \/ Match

SpecFilter == InitFilter /\ [][NextFilter]_vars

----------------------------------------------------------------------------
(* C1 *)

HasSpace(s) == \E i \in 1..Len(s) : IsSpace(s[i])

\* the offset just behind the first blank of s
AfterFirstSpace(s) ==
    CHOOSE i \in 1..Len(s) : IsSpace(s[i]) /\ \A j \in 1..(i-1) : ~IsSpace(s[j])

\* "<metric-name> <rest-of-line>": a name, a blank, the rest
NameLine(s) == HasSpace(s) /\ AfterFirstSpace(s) > 1

AltFree(ps) == \A i \in 1..Len(ps) : \A j \in 1..Len(ps[i]) : ps[i][j] # "|"

\* C1 as claimed: the filter accepts a line "<metric-name> <rest>" exactly when
\* some user pattern matches starting at the metric name, so the filter of
\* cpu\..* accepts "cpu.load 1 2 3" and rejects "mem.free 1 2 3".
C1_MatchesAtName ==
    (fpc = "matched" /\ NameLine(subject)) =>
        /\ verdict <=> \E i \in 1..Len(patterns) : MatchesAt(patterns[i], subject, 0)
        /\ (patterns = <<CpuPattern>> /\ subject = CpuLine) => verdict
        /\ (patterns = <<CpuPattern>> /\ subject = MemLine) => ~verdict

\* C1 amended: the filter accepts a line exactly when the line has a blank and
\* some user pattern matches starting just behind the first blank, that is at
\* the second token (user patterns without a top-level |); the filter of
\* cpu\..* rejects "cpu.load 1 2 3" and "mem.free 1 2 3", accepts
\* "1// cpu.load 1" and rejects "1// mem.free 1".
C1_MatchesBehindFirstBlank ==
    (fpc = "matched" /\ AltFree(patterns)) =>
        /\ verdict <=>
              /\ HasSpace(subject)
              /\ \E i \in 1..Len(patterns) :
                    MatchesAt(patterns[i], subject, AfterFirstSpace(subject))
        /\ (patterns = <<CpuPattern>> /\ subject = CpuLine) => ~verdict
        /\ (patterns = <<CpuPattern>> /\ subject = MemLine) => ~verdict
        /\ (patterns = <<CpuPattern>> /\ subject = StampedCpuLine) => verdict
        /\ (patterns = <<CpuPattern>> /\ subject = StampedMemLine) => ~verdict

C1_Witness ==
    /\ fpc = "matched"
    /\ patterns = <<CpuPattern>>
    /\ subject = StampedCpuLine
    /\ verdict

----------------------------------------------------------------------------
(* What the documentation asks of a document, field by field *)

Last == applied[Len(applied)]

Range(f) == {f[i] : i \in DOMAIN f}

Entries(d, section) ==
    LET x == Get(d, section) IN IF x.t = "hash" THEN x.h ELSE <<>>

\* every section that is present is a map with string keys
WellFormed(d) ==
    /\ d.t = "hash"
    /\ \A section \in {"sources", "sinks", "labels", "parameters"} :
          LET x == Get(d, section)
          IN  x.t \in {"bad", "hash"}
    /\ \A section \in {"sources", "sinks", "labels"} :
          \A i \in 1..Len(Entries(d, section)) : Entries(d, section)[i][1].t = "str"

IsUnsigned(x) == x.t = "int" /\ x.n >= 0

AllStrings(x) == x.t = "arr" /\ \A i \in 1..Len(x.a) : x.a[i].t = "str"

SourceFields == {"url", "period", "format", "metrics"}

SourceFieldBad(f, v) ==
    LET x == Get(v, f)
    IN  CASE f = "url"     -> x.t # "str"
          [] f = "period"  -> ~IsUnsigned(x)
          [] f = "format"  -> /\ x.t # "bad"
                              /\ (x.t = "str" => x.s \notin {"prometheus", "sensision"})
          [] f = "metrics" -> x.t # "bad" /\ ~AllStrings(x)

SinkFields == {"url", "token", "token-header", "selector", "ttl", "size"}

SinkFieldBad(f, v) ==
    LET x == Get(v, f)
    IN  CASE f \in {"url", "token"}             -> x.t # "str"
          [] f \in {"token-header", "selector"} -> x.t \notin {"bad", "str"}
          [] f \in {"ttl", "size"}              -> x.t # "bad" /\ ~IsUnsigned(x)

ParamBad(row, x) ==
    CASE row.kind = "str"   -> x.t \notin {"bad", "str"}
      [] row.kind = "num"   -> x.t # "bad" /\ ~IsUnsigned(x)
      [] row.kind = "level" -> x.t # "bad" /\ ~(IsUnsigned(x) /\ x.n < Len(LevelNames))

\* the dotted paths of the fields of d that break the format
Offences(d) ==
    LET so == Entries(d, "sources")
        si == Entries(d, "sinks")
        la == Entries(d, "labels")
        pa == Get(d, "parameters")
    IN  {<<"sources", so[x[1]][1].s, x[2]>> :
            x \in {y \in (1..Len(so)) \X SourceFields : SourceFieldBad(y[2], so[y[1]][2])}}
        \cup
        {<<"sinks", si[x[1]][1].s, x[2]>> :
            x \in {y \in (1..Len(si)) \X SinkFields : SinkFieldBad(y[2], si[y[1]][2])}}
        \cup
        {<<"labels", la[i][1].s>> : i \in {j \in 1..Len(la) : la[j][2].t # "str"}}
        \cup
        {<<"parameters", ParamTable[i].key>> :
            i \in {j \in 1..Len(ParamTable) :
                      ParamBad(ParamTable[j], Get(pa, ParamTable[j].key))}}

\* the patterns of d that are no regular expression, each with the entry and
\* the field it stands in and the text handed to the regex compiler
BadPatterns(d) ==
    LET so == Entries(d, "sources")
        si == Entries(d, "sinks")
    IN  UNION {
          LET m == Get(so[i][2], "metrics")
          IN  IF AllStrings(m)
              THEN {[name |-> so[i][1].s, field |-> "metrics", text |-> m.a[j].s] :
                       j \in {k \in 1..Len(m.a) : ~SyntaxOk(m.a[k].s)}}
              ELSE {} : i \in 1..Len(so)}
        \cup
        UNION {
          LET sel == Get(si[i][2], "selector")
          IN  IF sel.t = "str" /\ ~SyntaxOk(sel.s)
              THEN {[name |-> si[i][1].s, field |-> "selector", text |-> <<"^">> \o sel.s]}
              ELSE {} : i \in 1..Len(si)}

\* the message of e holds the words of the dotted path
Names(e, words) == words \subseteq Range(e.path)

----------------------------------------------------------------------------
(* C2 *)

\* the Source built from entry i of the document visited last, once that
\* document went through without an error
BuiltSource(i) ==
    config.sources[Len(config.sources) - Len(Entries(Last, "sources")) + i]

\* C2 as claimed: a source entry whose `metrics` key is absent or an empty
\* sequence gets Source.metrics = None, and Source.metrics is Some only when
\* at least one pattern was given.
C2_EmptyMetricsIsNone ==
    (applied # <<>> /\ errors = <<>>) =>
        \A i \in 1..Len(Entries(Last, "sources")) :
            LET m == Get(Entries(Last, "sources")[i][2], "metrics")
            IN  /\ (m.t = "bad" \/ (m.t = "arr" /\ Len(m.a) = 0))
                     => ~BuiltSource(i).metrics.some
                /\ BuiltSource(i).metrics.some => (m.t = "arr" /\ Len(m.a) >= 1)

----------------------------------------------------------------------------
(* C3 *)

RegexCase ==
    /\ pc = "done"
    /\ applied # <<>>
    /\ WellFormed(Last)
    /\ Offences(Last) = {}
    /\ BadPatterns(Last) # {}

\* C3 as claimed: a malformed pattern in a source's `metrics` or a sink's
\* `selector` makes load_config fail with an error that names the entry and
\* the field of the pattern.
C3_RegexErrorNamesEntry ==
    RegexCase =>
        /\ result.state = "Err"
        /\ \E b \in BadPatterns(Last) : Names(result.err, {b.name, b.field})

\* C3 amended: a malformed pattern in a source's `metrics` or a sink's
\* `selector` makes load_config fail with ConfigError::Regex, the regex
\* library's error about the text it was given (the user's pattern for
\* `metrics`, "^" and the user's string for `selector`); the error names
\* neither the entry nor the field.
C3_RegexErrorIsBare ==
    RegexCase =>
        /\ result.state = "Err"
        /\ result.err.kind = "Regex"
        /\ result.err.path = <<>>
        /\ \E b \in BadPatterns(Last) : result.err.pattern = b.text

C3_Witness ==
    /\ RegexCase
    /\ result.err.kind = "Regex"
    /\ \E b \in BadPatterns(Last) : b.field = "metrics"

----------------------------------------------------------------------------
(* C4 *)

\* C4 as claimed: a format error raised while applying a document carries
\* the dotted path of an offending field in that field's own section
\* (sources.<name>.<field>, sinks.<name>.<field>, labels.<key>,
\* parameters.<key>).
C4_ErrorNamesField ==
    (applied # <<>> /\ errors # <<>> /\ errors[1].kind = "Format" /\ WellFormed(Last))
        => errors[1].path \in Offences(Last)

----------------------------------------------------------------------------
(* C5 *)

LogLevelNode(d) == Get(Get(d, "parameters"), "log-level")

\* C5 as claimed: log-level is an index into the severity table starting at 0;
\* 0 sets Critical, an index in range sets its level, an index beyond the
\* table or a negative one makes the load fail with a validation error and
\* sets no level.
C5_LogLevelIndex ==
    (applied # <<>> /\ LogLevelNode(Last).t = "int") =>
        LET n == LogLevelNode(Last).n
        IN  IF n >= 0 /\ n < Len(LevelNames)
            THEN errors = <<>> =>
                    /\ config.parameters.log_level = LevelNames[n + 1]
                    /\ (n = 0 => config.parameters.log_level = "Critical")
            ELSE /\ errors # <<>>
                 /\ errors[1].kind = "Format"
                 /\ result.state = "Err"

----------------------------------------------------------------------------
(* C6 *)

RECURSIVE Flatten(_)
Flatten(ss) == IF ss = <<>> THEN <<>> ELSE Head(ss) \o Flatten(Tail(ss))

\* the entries the visited documents declare in `section`, in order: the
\* name of each and the written value of `field`
Declared(section, field) ==
    Flatten([k \in 1..Len(applied) |->
        LET es == Entries(applied[k], section)
        IN  [i \in 1..Len(es) |-> <<es[i][1].s, Get(es[i][2], field)>>]])

SourcesHeld(cfg) ==
    [i \in 1..Len(cfg.sources) |->
        <<cfg.sources[i].name, YInteger(cfg.sources[i].period)>>]

SinksHeld(cfg) ==
    [i \in 1..Len(cfg.sinks) |-> <<cfg.sinks[i].name, YString(cfg.sinks[i].token)>>]

\* C6: while every document applied without error, Config.sources and
\* Config.sinks hold exactly one entry per declared entry, in application
\* order (so the length is the sum of the counts, and an earlier entry is
\* neither replaced nor removed by a later one of the same name); the Config
\* returned is that one.
C6_Appended ==
    /\ errors = <<>> =>
          /\ SourcesHeld(config) = Declared("sources", "period")
          /\ SinksHeld(config) = Declared("sinks", "token")
    /\ result.state = "Ok" =>
          /\ SourcesHeld(result.config) = Declared("sources", "period")
          /\ SinksHeld(result.config) = Declared("sinks", "token")

C6_Witness ==
    /\ result.state = "Ok"
    /\ Len(opened) = 2
    /\ Len(applied) = 2
    /\ Len(result.config.sources) = 2
    /\ result.config.sources[1].name = result.config.sources[2].name
    /\ result.config.sources[1].period # result.config.sources[2].period

----------------------------------------------------------------------------
(* C7 *)

\* the visited documents that specify the parameter `key`
Specifying(key) ==
    {k \in 1..Len(applied) : Get(Get(applied[k], "parameters"), key).t # "bad"}

Max(S) == CHOOSE x \in S : \A y \in S : y <= x

\* what the written value x of a parameter stands for
Meaning(row, x, bits) ==
    CASE row.kind = "str"   -> x.s
      [] row.kind = "num"   -> x.n
      [] row.kind = "level" -> LevelNames[(x.n % 2^bits) + 1]

\* C7: in the returned Config every parameter has the value of the last
\* applied document that specifies its key (local file after system-wide
\* file), and the default when no applied document specifies it.
C7_LastWins ==
    result.state = "Ok" =>
        \A r \in 1..Len(ParamTable) :
            LET row == ParamTable[r]
                who == Specifying(row.key)
                held == result.config.parameters[row.field]
            IN  IF who = {}
                THEN held = DefaultParameters[row.field]
                ELSE held = Meaning(row,
                                    Get(Get(applied[Max(who)], "parameters"), row.key),
                                    usize_bits)

C7_Witness ==
    /\ result.state = "Ok"
    /\ config_path = ""
    /\ Len(opened) = 2
    /\ opened[1].path = EtcPath
    /\ opened[2].path = LocalPath
    /\ Len(applied) = 2
    /\ Specifying("batch-size") = {1, 2}
    /\ Get(Get(applied[1], "parameters"), "batch-size")
          # Get(Get(applied[2], "parameters"), "batch-size")
    /\ Specifying("source-dir") = {1}
    /\ Specifying("log-file") = {}

----------------------------------------------------------------------------
(* C8 *)

----------------------------------------------------------------------------
(* C9 *)

\* C9: load_config returns the first error any file or document raised and
\* stops there: nothing is applied after it and no Config is returned; a
\* Config is returned only when nothing failed.
C9_Atomic ==
    /\ errors # <<>> =>
          /\ pc = "done"
          /\ Len(errors) = 1
          /\ result = ReturnErr(errors[1])
          /\ result.config = NoConfig
    /\ result.state = "Ok" => (errors = <<>> /\ result.config = config)
    /\ pc = "done" => result.state \in {"Ok", "Err"}

C9_Witness ==
    /\ pc = "done"
    /\ result.state = "Err"
    /\ result.config = NoConfig
    /\ Len(applied) = 2
    /\ Len(config.sources) >= 1

----------------------------------------------------------------------------
(* C10 *)

PeriodNode(e) == Get(e[2], "period")

\* written as an integer, but negative or beyond the integers the loader reads
PeriodOutOfRange(e) ==
    \/ PeriodNode(e).t = "real"
    \/ (PeriodNode(e).t = "int" /\ PeriodNode(e).n < 0)

\* C10: a source whose period is negative or beyond the integer range is
\* rejected; when it is the document's only offence the error is a
\* validation error naming sources.X.period; every Source held has the
\* non-negative period written in its document, never a wrapped one.
C10_Period ==
    /\ \A i \in 1..Len(config.sources) :
          config.sources[i].period >= 0 /\ config.sources[i].period <= I64Max
    /\ errors = <<>> => SourcesHeld(config) = Declared("sources", "period")
    /\ (applied # <<>> /\ WellFormed(Last)) =>
          \A i \in 1..Len(Entries(Last, "sources")) :
              LET e == Entries(Last, "sources")[i]
              IN  PeriodOutOfRange(e) =>
                     /\ errors # <<>>
                     /\ result.state = "Err"
                     /\ (/\ Offences(Last) = {<<"sources", e[1].s, "period">>}
                         /\ BadPatterns(Last) = {})
                           => /\ result.err.kind = "Format"
                              /\ result.err.path = <<"sources", e[1].s, "period">>

C10_Witness ==
    /\ pc = "done"
    /\ applied # <<>>
    /\ \E i \in 1..Len(Entries(Last, "sources")) :
          PeriodOutOfRange(Entries(Last, "sources")[i])
    /\ Len(config.sources) = 1
    /\ result.err = FormatError(<<"sources", "b", "period">>, "is invalid")

====
